---- MODULE Spec2Model ----
(***************************************************************************)
(* Model of src/websockets.rs: the WebSockets client (connect,             *)
(* connect_multiple, handle_connect, disconnect, process_message,          *)
(* event_loop) driven by one task, with the environment (WSS_PROXY, the    *)
(* AtomicBool running flag, the transport, the handler's verdict) acting   *)
(* around it.  Every await of the code is a position of pc.                *)
(***************************************************************************)
EXTENDS Integers, Sequences, FiniteSets, TLC

VARIABLES
    socket,      \* WebSockets.socket
    conf,        \* WebSockets.conf
    env,         \* the process environment's WSS_PROXY
    running,     \* the AtomicBool handed to event_loop
    pc,          \* where the task that owns the client stands
    op,          \* the operation called last
    result,      \* what it returned (Pending while it runs)
    prev,        \* for a disconnect: the operation completed before it, and its result
    url,         \* handle_connect's url
    proxy_addr,  \* handle_connect's proxy_addr
    trace,       \* transport calls of the running connect/disconnect, with outcomes
    iter,        \* iterations the running event_loop call has started
    arrivals,    \* what socket.next() yielded to the running event_loop call
    calls,       \* invocations of the handler by the running event_loop call
    atClear,     \* reads started and completed when running was last stored
    nextId,      \* identity of the next connection opened
    applied      \* the url-building function applied last, its inputs and output

vars == <<socket, conf, env, running, pc, op, result, prev, url, proxy_addr,
          trace, iter, arrivals, calls, atClear, nextId, applied>>

\* the variables of the client and of its environment
client == <<socket, conf, env, running, pc, op, result, prev, url, proxy_addr,
            trace, iter, arrivals, calls, atClear, nextId>>

\* ---------------------------------------------------------------- bounds
\* iterations of the while loop of one event_loop call that the model follows
MaxIter == 2
\* connections one client opens over its life
MaxConns == 2
\* topics in one list handed to combined_stream or connect_multiple
MaxTopics == 3

\* ------------------------------------------------------------- constants
\* strings that are built or taken apart are sequences of characters
STREAM_ENDPOINT == <<"s", "t", "r", "e", "a", "m">>
WS_ENDPOINT == <<"w", "s">>
WSS_PROXY_ENV_KEY == "WSS_PROXY"

None == "None"
\* Option::None of the socket field, of a frame, of a url not built yet
NoSocket == [variant |-> None, id |-> 0]
NoMsg == [type |-> None, data |-> None]
NoUrl == [parses |-> FALSE, base_ok |-> FALSE, host |-> FALSE, port |-> FALSE]

\* ---------------------------------------------------------------- inputs
\* values of conf.ws_endpoint, one per way the url crate treats a base
WsEndpoints == {"wss://h", "", "mailto:a", "file:///d", "foo://h"}
\* endpoint names handed to connect, endpoint lists handed to connect_multiple
Endpoints == {"a@ticker"}
EndpointLists == {<<>>, <<"a@ticker", "b@trade">>}
\* values of the WSS_PROXY variable: unset, or a proxy address
EnvValues == {None, "127.0.0.1:1080"}
\* payloads of text frames
Texts == {"", "1", "2", "x"}
\* payloads of close frames (Option<CloseFrame>)
ClosePayloads == {None, "1000"}
\* errors the handler may return
HandlerErrors == {"HandlerErr1", "HandlerErr2"}

\* tungstenite::Message, as matched by process_message
Messages ==
    [type : {"Text"}, data : Texts]
    \cup [type : {"Ping", "Pong", "Binary", "Frame"}, data : {None}]
    \cup [type : {"Close"}, data : ClosePayloads]

\* what socket.next().await yields: None, Some(Err(e)), Some(Ok(message))
ReadOutcomes ==
    {[kind |-> "Eof", msg |-> NoMsg], [kind |-> "ReadErr", msg |-> NoMsg]}
    \cup [kind : {"Msg"}, msg : Messages]

\* ------------------------------------------------------------- results
Ok == "Ok"
ErrNotConnected == "Msg(Not able to close the connection)"
ErrClose == "WsError(close)"
ErrUrlParse == "UrlParserError"
ErrProxy == "Msg(Error creating proxy stream)"
ErrHandshake == "Msg(Error during handshake)"
ErrRead == "WsError(read)"
ErrDecode == "Json"
ErrDisconnected(e) ==
    IF e = None THEN "Msg(Disconnected None)" ELSE "Msg(Disconnected Some(1000))"
Pending == "Pending"
Panicked == "panic"

\* ------------------------------------------------------- pure functions
\* Url::parse of a string built on the base: does it parse, may it be a base,
\* has it a host, has it a port or a known default one
UrlInfo(base) ==
    CASE base = "wss://h"   -> [parses |-> TRUE,  base_ok |-> TRUE,  host |-> TRUE,  port |-> TRUE]
      [] base = ""          -> [parses |-> FALSE, base_ok |-> FALSE, host |-> FALSE, port |-> FALSE]
      [] base = "mailto:a"  -> [parses |-> TRUE,  base_ok |-> FALSE, host |-> FALSE, port |-> FALSE]
      [] base = "file:///d" -> [parses |-> TRUE,  base_ok |-> TRUE,  host |-> FALSE, port |-> FALSE]
      [] base = "foo://h"   -> [parses |-> TRUE,  base_ok |-> TRUE,  host |-> TRUE,  port |-> FALSE]

\* msg.is_empty()
is_empty(msg) == msg = ""

\* serde_json::from_str::<WE>(msg) for an integer event type
from_str(msg) ==
    CASE msg = "1" -> [ok |-> TRUE, event |-> 1]
      [] msg = "2" -> [ok |-> TRUE, event |-> 2]
      [] OTHER     -> [ok |-> FALSE, event |-> 0]

\* Option<WebSocketConnection>
Direct(id) == [variant |-> "Direct", id |-> id]
Proxies(id) == [variant |-> "Proxies", id |-> id]

\* ---------------------------------------------------------- url building
\* values of conf.ws_endpoint as characters: with and without a trailing '/',
\* with a root path and with a longer one
Bases ==
    {<<"w", "s", "s", ":", "/", "/", "h">>,
     <<"w", "s", "s", ":", "/", "/", "h", "/">>,
     <<"w", "s", "s", ":", "/", "/", "h", "/", "p">>,
     <<"w", "s", "s", ":", "/", "/", "h", "/", "p", "/">>}
\* topic strings and endpoint names
Topics == {<<"a">>, <<"b", "@", "t">>, <<>>}
\* the lists of at most n topics
TopicLists(n) == UNION {[1..k -> Topics] : k \in 0..n}

\* no url-building function applied yet
NoCall == [fn |-> None, base |-> <<>>, arg |-> <<>>, out |-> <<>>]

\* every topic is followed by the separator
RECURSIVE combined_stream_Trailing(_)
combined_stream_Trailing(streams) ==
    IF streams = <<>> THEN <<>>
    ELSE streams[1] \o <<"/">> \o combined_stream_Trailing(Tail(streams))

\* streams.join("/")
RECURSIVE combined_stream(_)
combined_stream(streams) ==
    IF streams = <<>> THEN <<>>
    ELSE IF Len(streams) = 1 THEN streams[1]
    ELSE streams[1] \o <<"/">> \o combined_stream(Tail(streams))

\* the first index from `from` on at which s holds c, Len(s) + 1 if there is none
FirstIndex(s, c, from) ==
    IF \E i \in from..Len(s) : s[i] = c
    THEN CHOOSE i \in from..Len(s) : s[i] = c /\ \A j \in from..(i - 1) : s[j] # c
    ELSE Len(s) + 1

\* Url::parse of scheme://host[/path]: the path of a url with a host is never
\* empty, it is "/" when the input has none
Url_parse(input) ==
    LET authority == FirstIndex(input, ":", 1) + 3
        path_start == FirstIndex(input, "/", authority)
    IN [origin |-> SubSeq(input, 1, path_start - 1),
        path |-> IF path_start > Len(input) THEN <<"/">>
                 ELSE SubSeq(input, path_start, Len(input)),
        has_query |-> FALSE,
        query |-> <<>>]

\* url.path_segments_mut().push(segment): a '/' goes in front of the segment
\* unless the path is the bare root
push(u, segment) ==
    [u EXCEPT !.path = IF Len(u.path) > 1 THEN u.path \o <<"/">> \o segment
                       ELSE u.path \o segment]

\* url.set_query(Some(q))
set_query(u, q) == [u EXCEPT !.has_query = TRUE, !.query = q]

\* url.as_str()
as_str(u) ==
    u.origin \o u.path \o (IF u.has_query THEN <<"?">> \o u.query ELSE <<>>)

\* "streams="
StreamsKey == <<"s", "t", "r", "e", "a", "m", "s", "=">>

\* the url connect hands to handle_connect
connect_url(base, endpoint) ==
    Url_parse(base \o <<"/">> \o WS_ENDPOINT \o <<"/">> \o endpoint)

\* the url connect_multiple hands to handle_connect
connect_multiple_url(base, endpoints) ==
    set_query(push(Url_parse(base), STREAM_ENDPOINT),
              StreamsKey \o combined_stream(endpoints))

\* ------------------------------------------------------------------ state
Init ==
    /\ socket = NoSocket
    /\ conf \in [ws_endpoint : WsEndpoints]
    /\ env \in EnvValues
    /\ running \in BOOLEAN
    /\ pc = "idle"
    /\ op = None
    /\ result = None
    /\ prev = [op |-> None, result |-> None]
    /\ url = NoUrl
    /\ proxy_addr = None
    /\ trace = <<>>
    /\ iter = 0
    /\ arrivals = <<>>
    /\ calls = <<>>
    /\ atClear = [reads |-> 0, frames |-> 0]
    /\ nextId = 1
    /\ applied = NoCall

\* reads started by the running event_loop call
ReadsStarted == Len(arrivals) + (IF pc = "reading" THEN 1 ELSE 0)

\* --------------------------------------------------------- environment
\* another thread sets or removes WSS_PROXY
SetEnv(v) ==
    /\ v # env
    /\ env' = v
    /\ UNCHANGED applied
    /\ UNCHANGED <<socket, conf, running, pc, op, result, prev, url, proxy_addr,
                   trace, iter, arrivals, calls, atClear, nextId>>

\* the owner of the AtomicBool stores b
SetRunning(b) ==
    /\ b # running
    /\ running' = b
    /\ atClear' = [reads |-> ReadsStarted, frames |-> Len(arrivals)]
    /\ UNCHANGED applied
    /\ UNCHANGED <<socket, conf, env, pc, op, result, prev, url, proxy_addr,
                   trace, iter, arrivals, calls, nextId>>

\* ------------------------------------------------------------- connect
\* the running operation returns r to its caller
Return(r) ==
    /\ pc' = "idle"
    /\ result' = r

\* a call of a public operation: the histories of the previous one are dropped
Call(name) ==
    /\ pc = "idle"
    /\ op' = name
    /\ prev' = IF name = "disconnect"
               THEN [op |-> op, result |-> result]
               ELSE [op |-> None, result |-> None]
    /\ iter' = 0
    /\ arrivals' = <<>>
    /\ calls' = <<>>

\* handle_connect that never looks at WSS_PROXY
handle_connect_Direct(u) ==
    /\ url' = u
    /\ proxy_addr' = env
    /\ pc' = "handshake"
    /\ trace' = <<"handshake_direct">>
    /\ result' = Pending

\* handle_connect up to its first await
handle_connect(u) ==
    /\ url' = u
    /\ proxy_addr' = env
    /\ IF env # None
       THEN IF u.host /\ u.port
            THEN /\ pc' = "tunnel"
                 /\ trace' = <<"tunnel">>
                 /\ result' = Pending
            ELSE /\ pc' = "panicked"
                 /\ trace' = <<>>
                 /\ result' = Panicked
       ELSE /\ pc' = "handshake"
            /\ trace' = <<"handshake_direct">>
            /\ result' = Pending

connect(endpoint) ==
    /\ Call("connect")
    /\ LET u == UrlInfo(conf.ws_endpoint) IN
         IF ~u.parses
         THEN /\ Return(ErrUrlParse)
              /\ trace' = <<>>
              /\ url' = NoUrl
              /\ proxy_addr' = None
         ELSE handle_connect(u)
    /\ UNCHANGED applied
    /\ UNCHANGED <<socket, conf, env, running, atClear, nextId>>

connect_multiple(endpoints) ==
    /\ Call("connect_multiple")
    /\ LET u == UrlInfo(conf.ws_endpoint) IN
         IF ~u.parses \/ ~u.base_ok
         THEN /\ Return(ErrUrlParse)
              /\ trace' = <<>>
              /\ url' = NoUrl
              /\ proxy_addr' = None
         ELSE handle_connect(u)
    /\ UNCHANGED applied
    /\ UNCHANGED <<socket, conf, env, running, atClear, nextId>>

\* a tunnel failure is retried once instead of being returned
TunnelDone_Retry(ok) ==
    /\ pc = "tunnel"
    /\ IF ok
       THEN /\ pc' = "handshake"
            /\ trace' = trace \o <<"tunnel_ok", "handshake_proxied">>
            /\ UNCHANGED result
       ELSE IF Len(trace) = 1
            THEN /\ pc' = "tunnel"
                 /\ trace' = trace \o <<"tunnel_err", "tunnel">>
                 /\ UNCHANGED result
            ELSE /\ Return(ErrProxy)
                 /\ trace' = Append(trace, "tunnel_err")
    /\ UNCHANGED applied
    /\ UNCHANGED <<socket, conf, env, running, op, prev, url, proxy_addr,
                   iter, arrivals, calls, atClear, nextId>>

\* Socks5Stream::connect(...).await completes
TunnelDone(ok) ==
    /\ pc = "tunnel"
    /\ IF ok
       THEN /\ pc' = "handshake"
            /\ trace' = trace \o <<"tunnel_ok", "handshake_proxied">>
            /\ UNCHANGED result
       ELSE /\ Return(ErrProxy)
            /\ trace' = Append(trace, "tunnel_err")
    /\ UNCHANGED applied
    /\ UNCHANGED <<socket, conf, env, running, op, prev, url, proxy_addr,
                   iter, arrivals, calls, atClear, nextId>>

\* a successful handshake is always stored as the Direct variant
HandshakeDone_AlwaysDirect(ok) ==
    /\ pc = "handshake"
    /\ ok => (url.host /\ url.port /\ nextId <= MaxConns)
    /\ IF ok
       THEN /\ socket' = Direct(nextId)
            /\ nextId' = nextId + 1
            /\ trace' = Append(trace, "handshake_ok")
            /\ Return(Ok)
       ELSE /\ Return(ErrHandshake)
            /\ trace' = Append(trace, "handshake_err")
            /\ UNCHANGED <<socket, nextId>>
    /\ UNCHANGED applied
    /\ UNCHANGED <<conf, env, running, op, prev, url, proxy_addr,
                   iter, arrivals, calls, atClear>>

\* a failed handshake drops the connection held before the call
HandshakeDone_DropsOnFailure(ok) ==
    /\ pc = "handshake"
    /\ ok => (url.host /\ url.port /\ nextId <= MaxConns)
    /\ IF ok
       THEN /\ socket' = IF proxy_addr # None THEN Proxies(nextId) ELSE Direct(nextId)
            /\ nextId' = nextId + 1
            /\ trace' = Append(trace, "handshake_ok")
            /\ Return(Ok)
       ELSE /\ Return(ErrHandshake)
            /\ trace' = Append(trace, "handshake_err")
            /\ socket' = NoSocket
            /\ UNCHANGED nextId
    /\ UNCHANGED applied
    /\ UNCHANGED <<conf, env, running, op, prev, url, proxy_addr,
                   iter, arrivals, calls, atClear>>

\* client_async_tls(url, proxy_stream).await or connect_async(url).await completes
HandshakeDone(ok) ==
    /\ pc = "handshake"
    /\ ok => (url.host /\ url.port /\ nextId <= MaxConns)
    /\ IF ok
       THEN /\ socket' = IF proxy_addr # None THEN Proxies(nextId) ELSE Direct(nextId)
            /\ nextId' = nextId + 1
            /\ trace' = Append(trace, "handshake_ok")
            /\ Return(Ok)
       ELSE /\ Return(ErrHandshake)
            /\ trace' = Append(trace, "handshake_err")
            /\ UNCHANGED <<socket, nextId>>
    /\ UNCHANGED applied
    /\ UNCHANGED <<conf, env, running, op, prev, url, proxy_addr,
                   iter, arrivals, calls, atClear>>

\* disconnect that reports success when there is nothing to close
disconnect_OkWhenAbsent ==
    /\ Call("disconnect")
    /\ IF socket # NoSocket
       THEN /\ pc' = "closing"
            /\ trace' = <<"close">>
            /\ result' = Pending
       ELSE /\ Return(Ok)
            /\ trace' = <<>>
    /\ url' = NoUrl
    /\ proxy_addr' = None
    /\ UNCHANGED applied
    /\ UNCHANGED <<socket, conf, env, running, atClear, nextId>>

\* ---------------------------------------------------------- disconnect
disconnect ==
    /\ Call("disconnect")
    /\ IF socket # NoSocket
       THEN /\ pc' = "closing"
            /\ trace' = <<"close">>
            /\ result' = Pending
       ELSE /\ Return(ErrNotConnected)
            /\ trace' = <<>>
    /\ url' = NoUrl
    /\ proxy_addr' = None
    /\ UNCHANGED applied
    /\ UNCHANGED <<socket, conf, env, running, atClear, nextId>>

\* socket.close(None).await completes
CloseDone(ok) ==
    /\ pc = "closing"
    /\ Return(IF ok THEN Ok ELSE ErrClose)
    /\ trace' = Append(trace, IF ok THEN "close_ok" ELSE "close_err")
    /\ UNCHANGED applied
    /\ UNCHANGED <<socket, conf, env, running, op, prev, url, proxy_addr,
                   iter, arrivals, calls, atClear, nextId>>

\* ---------------------------------------------------------- event_loop
event_loop ==
    /\ Call("event_loop")
    /\ pc' = "check"
    /\ result' = Pending
    /\ url' = NoUrl
    /\ proxy_addr' = None
    /\ trace' = <<>>
    /\ atClear' = [reads |-> 0, frames |-> 0]
    /\ UNCHANGED applied
    /\ UNCHANGED <<socket, conf, env, running, nextId>>

\* the flag is tested after the body (loop { ...; if !running { break } })
LoopCheck_TestAfter ==
    /\ pc = "check"
    /\ IF running \/ iter = 0
       THEN /\ iter < MaxIter
            /\ iter' = iter + 1
            /\ pc' = IF socket # NoSocket THEN "reading" ELSE "check"
            /\ UNCHANGED result
       ELSE /\ Return(Ok)
            /\ UNCHANGED iter
    /\ UNCHANGED applied
    /\ UNCHANGED <<socket, conf, env, running, op, prev, url, proxy_addr, trace,
                   arrivals, calls, atClear, nextId>>

\* the flag is tested only while a connection is held
LoopCheck_SpinWhenAbsent ==
    /\ pc = "check"
    /\ IF running \/ socket = NoSocket
       THEN /\ iter < MaxIter
            /\ iter' = iter + 1
            /\ pc' = IF socket # NoSocket THEN "reading" ELSE "check"
            /\ UNCHANGED result
       ELSE /\ Return(Ok)
            /\ UNCHANGED iter
    /\ UNCHANGED applied
    /\ UNCHANGED <<socket, conf, env, running, op, prev, url, proxy_addr, trace,
                   arrivals, calls, atClear, nextId>>

\* an iteration without a connection is an error
LoopCheck_ErrWhenAbsent ==
    /\ pc = "check"
    /\ IF running
       THEN IF socket # NoSocket
            THEN /\ iter < MaxIter
                 /\ iter' = iter + 1
                 /\ pc' = "reading"
                 /\ UNCHANGED result
            ELSE /\ Return(ErrNotConnected)
                 /\ UNCHANGED iter
       ELSE /\ Return(Ok)
            /\ UNCHANGED iter
    /\ UNCHANGED applied
    /\ UNCHANGED <<socket, conf, env, running, op, prev, url, proxy_addr, trace,
                   arrivals, calls, atClear, nextId>>

\* while running.load(Relaxed) { if let Some(connection) = self.socket { socket.next() ...
LoopCheck ==
    /\ pc = "check"
    /\ IF running
       THEN /\ iter < MaxIter
            /\ iter' = iter + 1
            /\ pc' = IF socket # NoSocket THEN "reading" ELSE "check"
            /\ UNCHANGED result
       ELSE /\ Return(Ok)
            /\ UNCHANGED iter
    /\ UNCHANGED applied
    /\ UNCHANGED <<socket, conf, env, running, op, prev, url, proxy_addr, trace,
                   arrivals, calls, atClear, nextId>>

\* process_message that dispatches a text frame whether or not it decoded
process_message_NoDecodeCheck(message) ==
    CASE message.type = "Text" ->
           IF is_empty(message.data)
           THEN /\ pc' = "check" /\ UNCHANGED <<result, calls>>
           ELSE /\ pc' = "handling"
                /\ calls' = Append(calls, [frame |-> Len(arrivals) + 1,
                                           event |-> from_str(message.data).event,
                                           res |-> Pending])
                /\ UNCHANGED result
      [] message.type = "Close" ->
           /\ Return(ErrDisconnected(message.data)) /\ UNCHANGED calls
      [] OTHER ->
           /\ pc' = "check" /\ UNCHANGED <<result, calls>>

\* process_message whose ignore arm also takes the close frame
process_message_CloseIgnored(message) ==
    CASE message.type = "Text" ->
           IF is_empty(message.data)
           THEN /\ pc' = "check" /\ UNCHANGED <<result, calls>>
           ELSE IF ~from_str(message.data).ok
                THEN /\ Return(ErrDecode) /\ UNCHANGED calls
                ELSE /\ pc' = "handling"
                     /\ calls' = Append(calls, [frame |-> Len(arrivals) + 1,
                                                event |-> from_str(message.data).event,
                                                res |-> Pending])
                     /\ UNCHANGED result
      [] OTHER ->
           /\ pc' = "check" /\ UNCHANGED <<result, calls>>

\* process_message without the is_empty test: an empty payload goes to from_str
process_message_NoEmptyCheck(message) ==
    CASE message.type = "Text" ->
           IF ~from_str(message.data).ok
           THEN /\ Return(ErrDecode) /\ UNCHANGED calls
           ELSE /\ pc' = "handling"
                /\ calls' = Append(calls, [frame |-> Len(arrivals) + 1,
                                           event |-> from_str(message.data).event,
                                           res |-> Pending])
                /\ UNCHANGED result
      [] message.type = "Close" ->
           /\ Return(ErrDisconnected(message.data)) /\ UNCHANGED calls
      [] OTHER ->
           /\ pc' = "check" /\ UNCHANGED <<result, calls>>

\* process_message whose close arm returns Ok(())
process_message_CloseOk(message) ==
    CASE message.type = "Text" ->
           IF is_empty(message.data)
           THEN /\ pc' = "check" /\ UNCHANGED <<result, calls>>
           ELSE IF ~from_str(message.data).ok
                THEN /\ Return(ErrDecode) /\ UNCHANGED calls
                ELSE /\ pc' = "handling"
                     /\ calls' = Append(calls, [frame |-> Len(arrivals) + 1,
                                                event |-> from_str(message.data).event,
                                                res |-> Pending])
                     /\ UNCHANGED result
      [] message.type = "Close" ->
           /\ Return(Ok) /\ UNCHANGED calls
      [] OTHER ->
           /\ pc' = "check" /\ UNCHANGED <<result, calls>>

\* process_message that skips a text frame it cannot decode
process_message_SkipUndecodable(message) ==
    CASE message.type = "Text" ->
           IF is_empty(message.data) \/ ~from_str(message.data).ok
           THEN /\ pc' = "check" /\ UNCHANGED <<result, calls>>
           ELSE /\ pc' = "handling"
                /\ calls' = Append(calls, [frame |-> Len(arrivals) + 1,
                                           event |-> from_str(message.data).event,
                                           res |-> Pending])
                /\ UNCHANGED result
      [] message.type = "Close" ->
           /\ Return(ErrDisconnected(message.data)) /\ UNCHANGED calls
      [] OTHER ->
           /\ pc' = "check" /\ UNCHANGED <<result, calls>>

\* process_message that rejects binary frames
process_message_BinaryIsError(message) ==
    CASE message.type = "Text" ->
           IF is_empty(message.data)
           THEN /\ pc' = "check" /\ UNCHANGED <<result, calls>>
           ELSE IF ~from_str(message.data).ok
                THEN /\ Return(ErrDecode) /\ UNCHANGED calls
                ELSE /\ pc' = "handling"
                     /\ calls' = Append(calls, [frame |-> Len(arrivals) + 1,
                                                event |-> from_str(message.data).event,
                                                res |-> Pending])
                     /\ UNCHANGED result
      [] message.type = "Close" ->
           /\ Return(ErrDisconnected(message.data)) /\ UNCHANGED calls
      [] message.type = "Binary" ->
           /\ Return(ErrDecode) /\ UNCHANGED calls
      [] OTHER ->
           /\ pc' = "check" /\ UNCHANGED <<result, calls>>

\* process_message(message), up to the call of the handler
process_message(message) ==
    CASE message.type = "Text" ->
           IF is_empty(message.data)
           THEN /\ pc' = "check" /\ UNCHANGED <<result, calls>>
           ELSE IF ~from_str(message.data).ok
                THEN /\ Return(ErrDecode) /\ UNCHANGED calls
                ELSE /\ pc' = "handling"
                     /\ calls' = Append(calls, [frame |-> Len(arrivals) + 1,
                                                event |-> from_str(message.data).event,
                                                res |-> Pending])
                     /\ UNCHANGED result
      [] message.type = "Close" ->
           /\ Return(ErrDisconnected(message.data)) /\ UNCHANGED calls
      [] OTHER ->
           /\ pc' = "check" /\ UNCHANGED <<result, calls>>

\* the end of the stream ends the loop with Ok(())
ReadDone_EofReturns(o) ==
    /\ pc = "reading"
    /\ arrivals' = Append(arrivals, o)
    /\ CASE o.kind = "Eof"     -> /\ Return(Ok) /\ UNCHANGED calls
         [] o.kind = "ReadErr" -> /\ Return(ErrRead) /\ UNCHANGED calls
         [] o.kind = "Msg"     -> process_message(o.msg)
    /\ UNCHANGED applied
    /\ UNCHANGED <<socket, conf, env, running, op, prev, url, proxy_addr, trace,
                   iter, atClear, nextId>>

\* socket.next().await completes with outcome o
ReadDone(o) ==
    /\ pc = "reading"
    /\ arrivals' = Append(arrivals, o)
    /\ CASE o.kind = "Eof"     -> /\ pc' = "check" /\ UNCHANGED <<result, calls>>
         [] o.kind = "ReadErr" -> /\ Return(ErrRead) /\ UNCHANGED calls
         [] o.kind = "Msg"     -> process_message(o.msg)
    /\ UNCHANGED applied
    /\ UNCHANGED <<socket, conf, env, running, op, prev, url, proxy_addr, trace,
                   iter, atClear, nextId>>

\* the handler's result is dropped and the loop goes on
HandlerReturn_Dropped(r) ==
    /\ pc = "handling"
    /\ calls' = [calls EXCEPT ![Len(calls)].res = r]
    /\ pc' = "check"
    /\ UNCHANGED applied
    /\ UNCHANGED <<result, socket, conf, env, running, op, prev, url, proxy_addr,
                   trace, iter, arrivals, atClear, nextId>>

\* (self.handler)(event) returns r
HandlerReturn(r) ==
    /\ pc = "handling"
    /\ calls' = [calls EXCEPT ![Len(calls)].res = r]
    /\ IF r = Ok
       THEN /\ pc' = "check" /\ UNCHANGED result
       ELSE Return(r)
    /\ UNCHANGED applied
    /\ UNCHANGED <<socket, conf, env, running, op, prev, url, proxy_addr, trace,
                   iter, arrivals, atClear, nextId>>

\* ------------------------------------------------------------------ spec
Next ==
    \/ \E v \in EnvValues : SetEnv(v)
    \/ \E b \in BOOLEAN : SetRunning(b)
    \/ \E e \in Endpoints : connect(e)
    \/ \E es \in EndpointLists : connect_multiple(es)
    \/ \E ok \in BOOLEAN : TunnelDone(ok)
    \/ \E ok \in BOOLEAN : HandshakeDone(ok)
    \/ disconnect
    \/ \E ok \in BOOLEAN : CloseDone(ok)
    \/ event_loop
    \/ LoopCheck
    \/ \E o \in ReadOutcomes : ReadDone(o)
    \/ \E r \in {Ok} \cup HandlerErrors : HandlerReturn(r)

Spec == Init /\ [][Next]_vars

\* the task is scheduled, the handler returns, and every read in flight completes
Fairness ==
    /\ WF_vars(LoopCheck)
    /\ WF_vars(\E o \in ReadOutcomes : ReadDone(o))
    /\ WF_vars(\E r \in {Ok} \cup HandlerErrors : HandlerReturn(r))

LiveSpec == Init /\ [][Next]_vars /\ Fairness

\* ------------------------------------------------- url building, applied
\* combined_stream(streams)
apply_combined_stream(streams) ==
    /\ applied' = [fn |-> "combined_stream", base |-> <<>>, arg |-> streams,
                   out |-> combined_stream(streams)]
    /\ UNCHANGED client

\* connect(endpoint) on a client configured with base, up to handle_connect(url)
apply_connect(base, endpoint) ==
    /\ applied' = [fn |-> "connect", base |-> base, arg |-> <<endpoint>>,
                   out |-> as_str(connect_url(base, endpoint))]
    /\ UNCHANGED client

\* connect_multiple(endpoints) on a client configured with base, up to
\* handle_connect(url)
apply_connect_multiple(base, endpoints) ==
    /\ applied' = [fn |-> "connect_multiple", base |-> base, arg |-> endpoints,
                   out |-> as_str(connect_multiple_url(base, endpoints))]
    /\ UNCHANGED client

UrlInit ==
    /\ Init
    /\ conf.ws_endpoint = "wss://h"
    /\ env = None
    /\ ~running

UrlNext ==
    \/ \E streams \in TopicLists(MaxTopics) : apply_combined_stream(streams)
    \/ \E base \in Bases, endpoint \in Topics : apply_connect(base, endpoint)
    \/ \E base \in Bases, endpoints \in TopicLists(MaxTopics) :
          apply_connect_multiple(base, endpoints)

UrlSpec == UrlInit /\ [][UrlNext]_vars

InLoop == pc \in {"check", "reading", "handling"}

TypeOK ==
    /\ socket \in {NoSocket} \cup [variant : {"Direct", "Proxies"}, id : 1..MaxConns]
    /\ pc \in {"idle", "tunnel", "handshake", "closing", "check", "reading",
               "handling", "panicked"}
    /\ running \in BOOLEAN
    /\ iter \in 0..MaxIter
    /\ Len(arrivals) <= iter

\* ----------------------------------------------------------------- claims
Count(seq, x) == Cardinality({i \in 1..Len(seq) : seq[i] = x})
Connecting == op \in {"connect", "connect_multiple"}

\* C1: a disconnect whose close succeeded leaves the client holding no
\* connection, so a disconnect that immediately follows it fails with the
\* not-connected error.
C1_DisconnectClearsSocket ==
    /\ (op = "disconnect" /\ pc = "idle" /\ result = Ok) => socket = NoSocket
    /\ (op = "disconnect" /\ pc = "idle" /\ prev = [op |-> "disconnect", result |-> Ok])
          => result = ErrNotConnected

\* C2: within one event_loop call the handler is invoked only for frames that
\* are non-empty text frames which decoded, with the decoded event, at most once
\* per frame and in the order of arrival, and an invocation starts only when
\* none is in progress.
C2_HandlerCallsFollowFrames ==
    /\ \A i \in 1..Len(calls) :
          /\ calls[i].frame \in 1..Len(arrivals)
          /\ LET o == arrivals[calls[i].frame] IN
                /\ o.kind = "Msg"
                /\ o.msg.type = "Text"
                /\ o.msg.data # ""
                /\ from_str(o.msg.data).ok
                /\ from_str(o.msg.data).event = calls[i].event
          /\ \A j \in 1..Len(calls) : i < j => calls[i].frame < calls[j].frame
          /\ i < Len(calls) => calls[i].res # Pending
    /\ (calls # <<>> /\ calls[Len(calls)].res = Pending) <=> pc = "handling"

\* an empty text frame was skipped, the next frame was dispatched and returned
C2_Witness ==
    /\ op = "event_loop"
    /\ Len(arrivals) = 2
    /\ arrivals[1].kind = "Msg" /\ arrivals[1].msg.type = "Text"
    /\ Len(calls) = 1
    /\ calls[1].frame = 2
    /\ calls[1].res = Ok

\* C3: when the handler returns a failure, event_loop returns that same error
\* at once: the failed invocation is the last one of the call and its frame is
\* the last one read.
C3_HandlerFailureStopsLoop ==
    \A i \in 1..Len(calls) :
        calls[i].res \in HandlerErrors =>
            /\ i = Len(calls)
            /\ pc = "idle"
            /\ op = "event_loop"
            /\ result = calls[i].res
            /\ calls[i].frame = Len(arrivals)

C3_Witness ==
    /\ Len(calls) = 2
    /\ calls[2].res = "HandlerErr2"
    /\ result = "HandlerErr2"

\* C4: a close frame read by event_loop is the last thing the call reads; the
\* call has returned the disconnected error carrying the close payload, never
\* success, and the handler was not invoked for that frame.
C4_CloseFrameStopsLoop ==
    \A i \in 1..Len(arrivals) :
        (arrivals[i].kind = "Msg" /\ arrivals[i].msg.type = "Close") =>
            /\ i = Len(arrivals)
            /\ pc = "idle"
            /\ op = "event_loop"
            /\ result = ErrDisconnected(arrivals[i].msg.data)
            /\ result # Ok
            /\ \A j \in 1..Len(calls) : calls[j].frame # i

C4_Witness ==
    /\ Len(arrivals) = 2
    /\ arrivals[2].kind = "Msg" /\ arrivals[2].msg.type = "Close"
    /\ arrivals[2].msg.data = "1000"
    /\ Len(calls) = 1 /\ calls[1].res = Ok

\* C5: once the running flag is cleared and stays cleared, event_loop starts no
\* further read and completes at most the read that was in flight; at its
\* next flag check it returns success.  Every read follows a flag check of its
\* own that saw the flag set, and no step taken during a read or a handler
\* call is a flag-driven return.
C5_NoReadAfterClear ==
    /\ [](/\ (op = "event_loop" /\ ~running) =>
               /\ ReadsStarted = atClear.reads
               /\ Len(arrivals) <= atClear.frames + 1
          /\ op = "event_loop" => ReadsStarted <= iter)
    /\ [][/\ (pc = "check" /\ (pc' # pc \/ iter' # iter)) =>
               IF running
               THEN iter' = iter + 1 /\ pc' \in {"reading", "check"}
               ELSE pc' = "idle" /\ result' = Ok /\ iter' = iter
          /\ (pc \in {"reading", "handling"} /\ pc' = "idle") => result' # Ok]_vars

\* the flag was cleared during the first read; its frame was dispatched and the
\* loop then returned
C5_Witness ==
    /\ op = "event_loop" /\ pc = "idle" /\ result = Ok
    /\ ~running
    /\ atClear = [reads |-> 1, frames |-> 0]
    /\ Len(arrivals) = 1
    /\ Len(calls) = 1

\* C6: under LiveSpec (reads in flight complete, the handler returns, the task
\* runs), an event_loop call during which the flag is cleared for good
\* eventually returns, with or without a connection.
C6_ClearedLoopReturns ==
    []((InLoop /\ [](~running)) => <>(pc = "idle"))

\* a loop without a connection returned after the flag was cleared under it
C6_Witness ==
    /\ op = "event_loop" /\ pc = "idle" /\ result = Ok
    /\ ~running
    /\ socket = NoSocket
    /\ iter > 0

\* C7: after event_loop returned on a close frame or a read error, or the
\* connect attempt of a client that never held a connection failed, the client
\* holds no connection.
C7_FailedSessionClearsSocket ==
    (/\ pc = "idle"
     /\ \/ /\ op = "event_loop"
           /\ result \in {ErrRead, ErrDisconnected(None), ErrDisconnected("1000")}
        \/ /\ Connecting
           /\ nextId = 1
           /\ result \in {ErrUrlParse, ErrProxy, ErrHandshake})
    => socket = NoSocket

\* C8: disconnect called on a client that holds no connection returns the
\* not-connected error at once, asks the transport for nothing, invokes no
\* handler and leaves socket and conf as they were.
C8_DisconnectWhenAbsent ==
    /\ []((op = "disconnect" /\ socket = NoSocket) =>
            (pc = "idle" /\ result = ErrNotConnected /\ trace = <<>> /\ calls = <<>>))
    /\ [][(/\ pc = "idle" /\ op' = "disconnect"
           /\ env' = env /\ running' = running
           /\ socket = NoSocket) =>
              /\ pc' = "idle"
              /\ result' = ErrNotConnected
              /\ trace' = <<>>
              /\ calls' = <<>>
              /\ socket' = NoSocket
              /\ conf' = conf]_vars

\* disconnect right after a connect whose handshake failed
C8_Witness ==
    /\ op = "disconnect" /\ pc = "idle" /\ result = ErrNotConnected
    /\ prev = [op |-> "connect", result |-> ErrHandshake]
    /\ socket = NoSocket

\* C9: a connect attempt reads the proxy setting as it enters handle_connect;
\* with a proxy the first transport call is the tunnel and the handshake is made
\* only after the tunnel succeeded, over the tunnel; without one no tunnel is
\* attempted and the first transport call is the direct handshake.
C9_TunnelBeforeHandshake ==
    /\ []((Connecting /\ result # ErrUrlParse) =>
            IF proxy_addr # None
            THEN /\ pc # "panicked" => (trace # <<>> /\ trace[1] = "tunnel")
                 /\ pc = "handshake" => Len(trace) = 3
                 /\ \A i \in 1..Len(trace) :
                       /\ trace[i] # "handshake_direct"
                       /\ trace[i] = "handshake_proxied" =>
                             (i = 3 /\ trace[2] = "tunnel_ok")
            ELSE /\ trace # <<>> /\ trace[1] = "handshake_direct"
                 /\ \A i \in 1..Len(trace) :
                       trace[i] \notin {"tunnel", "handshake_proxied"})
    /\ [][(pc = "idle" /\ pc' \in {"tunnel", "handshake", "panicked"}) =>
              proxy_addr' = env]_vars

\* a proxied connect went through tunnel and handshake
C9_Witness ==
    /\ Connecting /\ pc = "idle" /\ result = Ok
    /\ trace = <<"tunnel", "tunnel_ok", "handshake_proxied", "handshake_ok">>

\* C10: a connect call makes at most one tunnel attempt and one handshake
\* attempt; a url that does not parse, a failed tunnel and a failed handshake
\* each end the call with their error, and after a failed tunnel no handshake
\* was attempted.
C10_ConnectFailsOnce ==
    Connecting =>
        /\ Count(trace, "tunnel") <= 1
        /\ Count(trace, "handshake_proxied") + Count(trace, "handshake_direct") <= 1
        /\ (\E i \in 1..Len(trace) : trace[i] = "tunnel_err") =>
              /\ pc = "idle" /\ result = ErrProxy
              /\ trace = <<"tunnel", "tunnel_err">>
        /\ (\E i \in 1..Len(trace) : trace[i] = "handshake_err") =>
              /\ pc = "idle" /\ result = ErrHandshake
              /\ trace[Len(trace)] = "handshake_err"
        /\ (\/ ~UrlInfo(conf.ws_endpoint).parses
            \/ (op = "connect_multiple" /\ ~UrlInfo(conf.ws_endpoint).base_ok)) =>
              /\ pc = "idle" /\ result = ErrUrlParse
              /\ trace = <<>>

\* a tunnel failed and the call returned the proxy error
C10_Witness ==
    /\ op = "connect_multiple" /\ pc = "idle" /\ result = ErrProxy
    /\ trace = <<"tunnel", "tunnel_err">>

\* the outcome of a read that yields an empty text frame
EmptyText == [kind |-> "Msg", msg |-> [type |-> "Text", data |-> ""]]

\* C11: an empty text frame read by event_loop is skipped: the step that reads
\* it goes back to the flag check without a result, without invoking the
\* handler and with the connection still held; afterwards the call is at its
\* next iteration or has returned success at the flag check.
C11_EmptyTextSkipped ==
    /\ [](\A i \in 1..Len(arrivals) :
            arrivals[i] = EmptyText =>
               /\ \A j \in 1..Len(calls) : calls[j].frame # i
               /\ socket # NoSocket
               /\ i = Len(arrivals) =>
                     \/ pc \in {"check", "reading"} /\ result = Pending
                     \/ pc = "idle" /\ result = Ok)
    /\ [][(/\ pc = "reading"
           /\ Len(arrivals') = Len(arrivals) + 1
           /\ arrivals'[Len(arrivals')] = EmptyText) =>
              /\ pc' = "check"
              /\ result' = Pending
              /\ calls' = calls
              /\ socket' = socket]_vars

\* an empty text frame was read first and the loop read another frame after it
C11_Witness ==
    /\ op = "event_loop"
    /\ Len(arrivals) = 2
    /\ arrivals[1] = EmptyText
    /\ arrivals[2].kind = "Msg"

\* the errors event_loop returns
LoopErrors ==
    {ErrRead, ErrDecode, ErrDisconnected(None), ErrDisconnected("1000")}
    \cup HandlerErrors

\* C14: event_loop returns success only in a step taken at the flag check with
\* the flag cleared; a return in any other step, and every return taken while
\* the flag is set, carries a close, read, decode or handler error.
C14_SuccessOnlyWhenCleared ==
    /\ []((op = "event_loop" /\ pc = "idle") => result \in {Ok} \cup LoopErrors)
    /\ [][(InLoop /\ pc' = "idle") =>
              /\ result' = Ok => (pc = "check" /\ ~running)
              /\ running => result' \in LoopErrors
              /\ pc # "check" => result' \in LoopErrors]_vars

\* two frames were read, then the flag check saw the flag cleared
C14_Witness ==
    /\ op = "event_loop" /\ pc = "idle" /\ result = Ok
    /\ Len(arrivals) = 2
    /\ Len(calls) = 1

\* C15: an event_loop call on a client without a connection reads nothing,
\* invokes no handler and returns no error; each iteration only counts, the
\* socket stays absent, and the call returns success at a flag check that sees
\* the flag cleared.
C15_LoopWithoutConnection ==
    /\ []((op = "event_loop" /\ socket = NoSocket) =>
            /\ arrivals = <<>>
            /\ calls = <<>>
            /\ \/ pc = "check" /\ result = Pending
               \/ pc = "idle" /\ result = Ok)
    /\ [][(pc = "check" /\ socket = NoSocket /\ (pc' # pc \/ iter' # iter)) =>
              /\ socket' = NoSocket
              /\ arrivals' = <<>>
              /\ calls' = <<>>
              /\ IF running
                 THEN pc' = "check" /\ result' = Pending /\ iter' = iter + 1
                 ELSE pc' = "idle" /\ result' = Ok]_vars

\* two iterations without a connection have run and the loop is still going
C15_Witness ==
    /\ op = "event_loop" /\ pc = "check"
    /\ socket = NoSocket
    /\ iter = 2
    /\ running

\* C16: a non-empty text frame that does not decode is the last thing the call
\* reads: the call has returned the decode error and the handler was not
\* invoked for that frame.
C16_DecodeFailureStopsLoop ==
    \A i \in 1..Len(arrivals) :
        (/\ arrivals[i].kind = "Msg"
         /\ arrivals[i].msg.type = "Text"
         /\ ~is_empty(arrivals[i].msg.data)
         /\ ~from_str(arrivals[i].msg.data).ok) =>
            /\ i = Len(arrivals)
            /\ pc = "idle"
            /\ op = "event_loop"
            /\ result = ErrDecode
            /\ \A j \in 1..Len(calls) : calls[j].frame # i

\* a frame was dispatched, then an undecodable one ended the call
C16_Witness ==
    /\ Len(arrivals) = 2
    /\ arrivals[2] = [kind |-> "Msg", msg |-> [type |-> "Text", data |-> "x"]]
    /\ Len(calls) = 1 /\ calls[1].res = Ok
    /\ result = ErrDecode

\* a read that yields a ping, pong, binary or raw frame
IsIgnored(o) == o.kind = "Msg" /\ o.msg.type \in {"Ping", "Pong", "Binary", "Frame"}

\* C17: a ping, pong, binary or raw frame is ignored: the step that reads it
\* goes back to the flag check without a result and without invoking the
\* handler, and the connection is the one held before.
C17_ControlFramesIgnored ==
    /\ [](\A i \in 1..Len(arrivals) :
            IsIgnored(arrivals[i]) =>
               /\ \A j \in 1..Len(calls) : calls[j].frame # i
               /\ socket # NoSocket
               /\ i = Len(arrivals) =>
                     \/ pc \in {"check", "reading"} /\ result = Pending
                     \/ pc = "idle" /\ result = Ok)
    /\ [][(/\ pc = "reading"
           /\ Len(arrivals') = Len(arrivals) + 1
           /\ IsIgnored(arrivals'[Len(arrivals')])) =>
              /\ pc' = "check"
              /\ result' = Pending
              /\ calls' = calls
              /\ socket' = socket]_vars

\* a ping and then a binary frame were read and the loop is at its next check
C17_Witness ==
    /\ op = "event_loop" /\ pc = "check"
    /\ Len(arrivals) = 2
    /\ arrivals[1].msg.type = "Ping"
    /\ arrivals[2].msg.type = "Binary"

\* the variant handle_connect stores for the proxy setting it read
VariantFor(addr) == IF addr # None THEN "Proxies" ELSE "Direct"

\* C18: after a successful connect the client holds the connection that call
\* opened, as Proxies if the call read a proxy address on entry and as Direct
\* otherwise; the socket field changes only in the step that ends a connect
\* with success, and then to the variant of that call.
C18_VariantFollowsProxy ==
    /\ []((Connecting /\ pc = "idle" /\ result = Ok) =>
            /\ socket.variant = VariantFor(proxy_addr)
            /\ socket.id = nextId - 1)
    /\ [][(pc = "idle" /\ pc' \in {"tunnel", "handshake", "panicked"}) =>
              proxy_addr' = env]_vars
    /\ [][socket' # socket =>
              /\ Connecting
              /\ pc = "handshake" /\ pc' = "idle" /\ result' = Ok
              /\ socket'.variant = VariantFor(proxy_addr)
              /\ socket'.id = nextId]_vars

\* the second connect went through the proxy, which was unset again afterwards
C18_Witness ==
    /\ Connecting /\ pc = "idle" /\ result = Ok
    /\ socket = Proxies(2)
    /\ env = None

\* C19: no step of a connect or connect_multiple call other than the one that
\* ends it with success changes the socket field, so a call that fails on the
\* url, the tunnel or the handshake leaves the field as it found it.
C19_FailedConnectKeepsSocket ==
    [][(/\ Connecting'
        /\ pc \in {"idle", "tunnel", "handshake"}
        /\ ~(pc = "handshake" /\ pc' = "idle" /\ result' = Ok)) =>
           socket' = socket]_vars

\* a handshake failed on a client that still holds its first connection
C19_Witness ==
    /\ Connecting /\ pc = "idle" /\ result = ErrHandshake
    /\ socket = Direct(1)
    /\ nextId = 2

\* C20: a read that reports the end of the stream goes back to the flag check
\* without a result and without invoking the handler; a call whose last read
\* was the end of the stream returns only at a flag check that sees the flag
\* cleared.
C20_EndOfStreamContinues ==
    /\ [][(/\ pc = "reading"
           /\ Len(arrivals') = Len(arrivals) + 1
           /\ arrivals'[Len(arrivals')].kind = "Eof") =>
              /\ pc' = "check"
              /\ result' = Pending
              /\ calls' = calls
              /\ socket' = socket]_vars
    /\ [][(/\ InLoop /\ pc' = "idle"
           /\ arrivals' # <<>>
           /\ arrivals'[Len(arrivals')].kind = "Eof") =>
              (pc = "check" /\ ~running /\ result' = Ok)]_vars

\* the stream ended twice in a row and the loop, its flag set, is still going
C20_Witness ==
    /\ op = "event_loop" /\ pc = "check" /\ running
    /\ Len(arrivals) = 2
    /\ arrivals[1].kind = "Eof" /\ arrivals[2].kind = "Eof"

\* the place in the joined string at which topic k + 1 starts, less one
RECURSIVE Offset(_, _)
Offset(ts, k) == IF k = 0 THEN 0 ELSE Offset(ts, k - 1) + Len(ts[k]) + 1

\* C12: combined_stream returns the topics in the order given, each at its
\* place and whole, with one '/' between neighbours and nothing else: the
\* empty list gives the empty string, one topic gives that topic, and n topics
\* give n - 1 separators.
C12_CombinedStreamJoins ==
    applied.fn = "combined_stream" =>
        LET ts == applied.arg
            out == applied.out
            n == Len(ts)
        IN /\ n = 0 => out = <<>>
           /\ n = 1 => out = ts[1]
           /\ n > 0 => Len(out) = Offset(ts, n) - 1
           /\ \A i \in 1..n :
                 SubSeq(out, Offset(ts, i - 1) + 1, Offset(ts, i) - 1) = ts[i]
           /\ \A i \in 1..(n - 1) : out[Offset(ts, i)] = "/"
           /\ n > 0 => Count(out, "/") = n - 1

\* three topics, the last two equal, joined in the order given
C12_Witness ==
    /\ applied.fn = "combined_stream"
    /\ applied.arg = <<<<"b", "@", "t">>, <<"a">>, <<"a">>>>
    /\ applied.out = <<"b", "@", "t", "/", "a", "/", "a">>

\* C13: the url handed to handle_connect is <base>/ws/<endpoint> for connect
\* and <base>/stream?streams=<topic1>/<topic2>/... for connect_multiple, for
\* every base, with or without a trailing '/', and every list of topics.
C13_UrlIsBasePlusSuffix ==
    /\ applied.fn = "connect" =>
          applied.out = applied.base \o <<"/">> \o WS_ENDPOINT \o <<"/">> \o applied.arg[1]
    /\ applied.fn = "connect_multiple" =>
          applied.out = applied.base \o <<"/">> \o STREAM_ENDPOINT \o <<"?">>
                           \o StreamsKey \o combined_stream(applied.arg)
====
